---- MODULE Spec2Model ----
(***************************************************************************)
(* The PERT distribution (tensorflow_probability/python/distributions/     *)
(* pert.py): a Beta distribution moved onto [minimum, maximum] by an       *)
(* affine bijector.  The model follows one PERT object from its            *)
(* construction through property accesses, moment queries and assignments  *)
(* to the tf.Variable parameters it was built from.  Tensors are scalars;  *)
(* floating point numbers are exact rationals extended with the infinities *)
(* and not-a-number, so rounding is abstracted and division by zero is     *)
(* not.                                                                    *)
(***************************************************************************)
EXTENDS Integers, Sequences, FiniteSets, TLC

\* ------------------------------------------------------------------------
\* Inputs the model draws from.
\* ------------------------------------------------------------------------

\* values of mini, mode and maxi (the docstring's example is 1, 7, 11)
ParamValues == {1, 7, 11}

\* values of smoothness (4 is the default; -3 makes smoothness + 3 zero)
SmoothValues == {-3, 0, 4}

\* assignments made to the Variables during one behaviour
MaxAssigns == 1

\* the points cdf and survival_function are asked at
QueryPoints == {7}

\* the four parameters of the constructor
ParamNames == {"mini", "mode", "maxi", "smoothness"}

\* the values a parameter may take
ValuesOf(p) == IF p = "smoothness" THEN SmoothValues ELSE ParamValues

\* ------------------------------------------------------------------------
\* Floating point values: n/d in lowest terms with d > 0, or d = 0 with
\* n = 1 (+inf), n = -1 (-inf), n = 0 (nan).
\* ------------------------------------------------------------------------

Abs(i) == IF i < 0 THEN -i ELSE i

Sign(i) == IF i < 0 THEN -1 ELSE IF i > 0 THEN 1 ELSE 0

RECURSIVE GCD(_, _)
GCD(a, b) == IF b = 0 THEN a ELSE GCD(b, a % b)

NaN == [n |-> 0, d |-> 0]

Inf(s) == [n |-> s, d |-> 0]

IsNaN(a) == a.d = 0 /\ a.n = 0

IsInf(a) == a.d = 0 /\ a.n # 0

IsFinite(a) == a.d # 0

\* the float n/d, d # 0
Frac(n, d) ==
    LET g == GCD(Abs(n), Abs(d))
    IN  [n |-> Sign(d) * (n \div g), d |-> Abs(d) \div g]

\* conversion of a Python number to a tensor value
Float(i) == [n |-> i, d |-> 1]

Neg(a) == [n |-> -a.n, d |-> a.d]

Add(a, b) ==
    IF IsNaN(a) \/ IsNaN(b) THEN NaN
    ELSE IF IsInf(a) /\ IsInf(b) THEN (IF a.n = b.n THEN a ELSE NaN)
    ELSE IF IsInf(a) THEN a
    ELSE IF IsInf(b) THEN b
    ELSE Frac(a.n * b.d + b.n * a.d, a.d * b.d)

Sub(a, b) == Add(a, Neg(b))

Mul(a, b) ==
    IF IsNaN(a) \/ IsNaN(b) THEN NaN
    ELSE IF IsInf(a) \/ IsInf(b)
         THEN (IF a.n = 0 \/ b.n = 0 THEN NaN ELSE Inf(Sign(a.n) * Sign(b.n)))
    ELSE Frac(a.n * b.n, a.d * b.d)

Div(a, b) ==
    IF IsNaN(a) \/ IsNaN(b) THEN NaN
    ELSE IF IsInf(a) /\ IsInf(b) THEN NaN
    ELSE IF IsInf(b) THEN Float(0)
    ELSE IF IsInf(a) THEN Inf(IF b.n < 0 THEN -a.n ELSE a.n)
    ELSE IF b.n = 0 THEN (IF a.n = 0 THEN NaN ELSE Inf(Sign(a.n)))
    ELSE Frac(a.n * b.d, a.d * b.n)

\* a > b; false when either side is nan
Greater(a, b) ==
    IF IsNaN(a) \/ IsNaN(b) THEN FALSE
    ELSE IF IsInf(a) THEN a.n = 1 /\ b # a
    ELSE IF IsInf(b) THEN b.n = -1
    ELSE a.n * b.d > b.n * a.d

\* ------------------------------------------------------------------------
\* State
\* ------------------------------------------------------------------------

VARIABLES
    pc,               \* "new", "constructed", or "failed" (__init__ raised)
    args,             \* the numbers (or the Variables' values) given to __init__
    is_ref,           \* which parameters were given as tf.Variable
    validate_args,    \* the validate_args argument
    variables,        \* current value of each tf.Variable parameter
    assigns,          \* number of assignments made to the Variables
    attrs,            \* names in the instance's __dict__
    _min, _mod, _max, _smoothness,             \* the stored parameters
    _concentration1, _concentration0, _scale,  \* the derived tensors
    distribution,     \* the Beta handed to the base class
    bijector,         \* the AffineScalar handed to the base class
    mod_stores,       \* number of assignments made to self._mod
    last              \* the most recent operation and its outcome

vars == <<pc, args, is_ref, validate_args, variables, assigns, attrs, _min, _mod, _max,
          _smoothness, _concentration1, _concentration0, _scale, distribution,
          bijector, mod_stores, last>>

fields == <<attrs, _min, _mod, _max, _smoothness, _concentration1,
            _concentration0, _scale, distribution, bijector, mod_stores>>

inputs == <<args, is_ref, validate_args>>

\* a stored parameter before __init__ assigns it
Unset == [is_ref |-> FALSE, id |-> "unset", val |-> NaN]

\* tensor_util.is_ref
IsRef(t) == t.is_ref

\* tensor_util.convert_nonref_to_tensor: a Variable is kept as the reference
\* it is, anything else becomes a constant tensor of the common dtype
convert_nonref_to_tensor(p) ==
    [is_ref |-> is_ref[p], id |-> p, val |-> Float(args[p])]

\* the value a stored parameter has when it is read
Read(t) == IF t.is_ref THEN Float(variables[t.id]) ELSE t.val

\* the outcome of a call
Outcome(op, error, asserted, failures, value, form, impl, inner) ==
    [op |-> op, error |-> error, asserted |-> asserted, failures |-> failures,
     value |-> value, form |-> form, impl |-> impl, inner |-> inner]

NoCall == Outcome("none", "", {}, {}, NaN, "", "", <<>>)

\* ------------------------------------------------------------------------
\* The class
\* ------------------------------------------------------------------------

\* the names the class body of PERT defines
ClassAttrs ==
    {"__init__", "_batch_shape_tensor", "_parameter_control_dependencies",
     "_survivial_function", "_variance", "_stddev", "_mode",
     "minimum", "maximum", "smoothness", "loc", "scale",
     "concentration0", "concentration1"}

\* names every Distribution inherits (the public query surface among them)
BaseAttrs ==
    {"mean", "variance", "stddev", "mode", "cdf", "survival_function",
     "validate_args", "_name_and_control_scope"}

\* self.<name>: the instance's __dict__, then the class, then its bases
HasAttr(instance, name) ==
    name \in instance \/ name \in ClassAttrs \/ name \in BaseAttrs

\* where a public query finds its implementation
Dispatch(name) == IF name \in ClassAttrs THEN "PERT" ELSE "base"

\* the message of each check
MsgMin == "Mode must be greater than minimum."

MsgMax == "Maximum must be greater than mode."

MsgSmooth == "Smoothness parameter must be positive."

\* assert_util.assert_greater(x, y, message)
assert_greater(x, y, message) ==
    [message |-> message, holds |-> Greater(Read(x), Read(y))]

\* assert_util.assert_positive(x, message)
assert_positive(x, message) ==
    [message |-> message, holds |-> Greater(Read(x), Float(0))]

pcd_wrong_operand(is_init, va, mod, min, max, smooth) ==
    IF ~va THEN {}
    ELSE (IF is_init # IsRef(mod)
          THEN (IF is_init # IsRef(min)
                THEN {assert_greater(mod, min, MsgMin)} ELSE {})
               \cup
               (IF is_init # IsRef(max)
                THEN {assert_greater(max, min, MsgMax)} ELSE {})
          ELSE {})
         \cup
         (IF is_init # IsRef(smooth)
          THEN {assert_positive(smooth, MsgSmooth)} ELSE {})

pcd_ungated(is_init, va, mod, min, max, smooth) ==
    (IF is_init # IsRef(mod)
     THEN (IF is_init # IsRef(min)
           THEN {assert_greater(mod, min, MsgMin)} ELSE {})
          \cup
          (IF is_init # IsRef(max)
           THEN {assert_greater(max, mod, MsgMax)} ELSE {})
     ELSE {})
    \cup
    (IF is_init # IsRef(smooth)
     THEN {assert_positive(smooth, MsgSmooth)} ELSE {})

\* PERT._parameter_control_dependencies: the assertions it returns
_parameter_control_dependencies(is_init, va, mod, min, max, smooth) ==
    IF ~va THEN {}
    ELSE (IF is_init # IsRef(mod)
          THEN (IF is_init # IsRef(min)
                THEN {assert_greater(mod, min, MsgMin)} ELSE {})
               \cup
               (IF is_init # IsRef(max)
                THEN {assert_greater(max, mod, MsgMax)} ELSE {})
          ELSE {})
         \cup
         (IF is_init # IsRef(smooth)
          THEN {assert_positive(smooth, MsgSmooth)} ELSE {})

\* the messages of a set of assertions
Messages(assertions) == {a.message : a \in assertions}

\* the messages of the assertions that fail when they are run
Failures(assertions) == {a.message : a \in {b \in assertions : ~b.holds}}

concentration1_swapped(smooth, mod, min, max) ==
    Add(Float(1), Div(Mul(smooth, Sub(max, mod)), Sub(max, min)))

\* __init__, the value assigned to self._concentration1
concentration1_init(smooth, mod, min, max) ==
    Add(Float(1), Div(Mul(smooth, Sub(mod, min)), Sub(max, min)))

concentration0_minus(smooth, mod, min, max) ==
    Sub(Float(1), Div(Mul(smooth, Sub(max, mod)), Sub(max, min)))

\* __init__, the value assigned to self._concentration0
concentration0_init(smooth, mod, min, max) ==
    Add(Float(1), Div(Mul(smooth, Sub(max, mod)), Sub(max, min)))

\* __init__, the value assigned to self._scale
scale_init(min, max) == Sub(max, min)

\* ------------------------------------------------------------------------
\* Construction
\* ------------------------------------------------------------------------

Init ==
    /\ pc = "new"
    /\ args \in [ParamNames -> ParamValues \cup SmoothValues]
    /\ \A p \in ParamNames : args[p] \in ValuesOf(p)
    /\ is_ref \in [ParamNames -> BOOLEAN]
    /\ validate_args \in BOOLEAN
    /\ variables = args
    /\ assigns = 0
    /\ attrs = {}
    /\ _min = Unset /\ _mod = Unset /\ _max = Unset /\ _smoothness = Unset
    /\ _concentration1 = NaN /\ _concentration0 = NaN /\ _scale = NaN
    /\ distribution = [concentration1 |-> NaN, concentration0 |-> NaN]
    /\ bijector = [shift |-> Unset, scale |-> NaN]
    /\ mod_stores = 0
    /\ last = NoCall

\* PERT.__init__
Construct ==
    /\ pc = "new"
    /\ LET min == convert_nonref_to_tensor("mini")
           mod == convert_nonref_to_tensor("mode")
           max == convert_nonref_to_tensor("maxi")
           smooth == convert_nonref_to_tensor("smoothness")
           c1 == concentration1_init(Read(smooth), Read(mod), Read(min), Read(max))
           c0 == concentration0_init(Read(smooth), Read(mod), Read(min), Read(max))
           sc == scale_init(Read(min), Read(max))
           deps == _parameter_control_dependencies(TRUE, validate_args,
                                                   mod, min, max, smooth)
       IN  /\ _min' = min
           /\ IF ~HasAttr({"_min"}, "_mode")
              THEN \* the bare self._mode raises AttributeError
                   /\ attrs' = {"_min"}
                   /\ UNCHANGED <<_mod, _max, _smoothness, _concentration1,
                                  _concentration0, _scale, distribution,
                                  bijector, mod_stores>>
                   /\ pc' = "failed"
                   /\ last' = Outcome("__init__", "AttributeError", {}, {},
                                      NaN, "", "PERT", <<>>)
              ELSE /\ _mod' = mod
                   /\ mod_stores' = mod_stores + 1
                   /\ _max' = max
                   /\ _smoothness' = smooth
                   /\ _concentration1' = c1
                   /\ _concentration0' = c0
                   /\ _scale' = sc
                   /\ distribution' = [concentration1 |-> c1, concentration0 |-> c0]
                   /\ bijector' = [shift |-> min, scale |-> sc]
                   /\ attrs' = {"_min", "_mod", "_max", "_smoothness",
                                "_concentration1", "_concentration0", "_scale"}
                   /\ pc' = IF Failures(deps) = {} THEN "constructed" ELSE "failed"
                   /\ last' = Outcome("__init__",
                                      IF Failures(deps) = {} THEN ""
                                      ELSE "InvalidArgument",
                                      Messages(deps), Failures(deps),
                                      NaN, "", "PERT", <<>>)
    /\ UNCHANGED <<inputs, variables, assigns>>

\* an assignment to a tf.Variable the distribution was built from
Assign ==
    /\ pc = "constructed"
    /\ assigns < MaxAssigns
    /\ assigns' = assigns + 1
    /\ \E p \in ParamNames : \E v \in ValuesOf(p) :
          /\ is_ref[p]
          /\ v # variables[p]
          /\ variables' = [variables EXCEPT ![p] = v]
    /\ last' = Outcome("assign", "", {}, {}, NaN, "", "", <<>>)
    /\ UNCHANGED <<pc, inputs, fields>>

\* ------------------------------------------------------------------------
\* Property accessors
\* ------------------------------------------------------------------------

\* what an @property returns: no scope is entered, nothing is asserted
Property(name, value) ==
    /\ pc = "constructed"
    /\ last' = Outcome(name, "", {}, {}, value, "value", "PERT", <<>>)
    /\ UNCHANGED <<pc, inputs, variables, assigns, fields>>

\* PERT.minimum
minimum == Property("minimum", Read(_min))

\* PERT.maximum
maximum == Property("maximum", Read(_max))

\* PERT.smoothness
smoothness == Property("smoothness", Read(_smoothness))

\* PERT.loc
loc == Property("loc", Read(_min))

scale_recomputed == Property("scale", Sub(Read(_max), Read(_min)))

\* PERT.scale
scale == Property("scale", _scale)

\* PERT.concentration0
concentration0 == Property("concentration0", _concentration0)

\* PERT.concentration1
concentration1 == Property("concentration1", _concentration1)

\* ------------------------------------------------------------------------
\* Queries
\* ------------------------------------------------------------------------

\* the Python type of an argument expression of a call
TypeOf(e) ==
    IF e = "kwargs" THEN "dict" ELSE IF e = "value" THEN "float" ELSE "str"

\* the name a public method runs under: its (i)th positional argument when
\* the call gives one, its default otherwise
NameArg(positional, i, default) ==
    IF Len(positional) >= i THEN positional[i] ELSE default

\* Distribution._name_and_control_scope: tf.name_scope rejects a name that
\* is not a string, then the parameters' assertions are run
ControlScope(name) ==
    LET deps == _parameter_control_dependencies(FALSE, validate_args,
                                                _mod, _min, _max, _smoothness)
    IN  IF TypeOf(name) # "str"
        THEN [error |-> "ValueError", asserted |-> {}, failures |-> {}]
        ELSE [error |-> IF Failures(deps) = {} THEN "" ELSE "InvalidArgument",
              asserted |-> Messages(deps), failures |-> Failures(deps)]

\* Beta._mean
BetaMean ==
    Div(distribution.concentration1,
        Add(distribution.concentration1, distribution.concentration0))

\* TransformedDistribution._mean: the bijector applied to the Beta's mean
mean_value == Add(Mul(bijector.scale, BetaMean), Read(bijector.shift))

\* the result of a public method called with the given arguments: the scope
\* is entered, then the implementation runs
Public(positional, i, default, body) ==
    LET scope == ControlScope(NameArg(positional, i, default))
    IN  IF scope.error # ""
        THEN [error |-> scope.error, asserted |-> scope.asserted,
              failures |-> scope.failures, value |-> NaN, form |-> "",
              impl |-> "", inner |-> <<>>]
        ELSE [error |-> body.error, asserted |-> scope.asserted,
              failures |-> scope.failures, value |-> body.value,
              form |-> body.form, impl |-> body.impl, inner |-> body.inner]

\* what an implementation hands back
Body(error, value, form, impl, inner) ==
    [error |-> error, value |-> value, form |-> form, impl |-> impl,
     inner |-> inner]

\* a call made from inside an implementation
Call(method, positional) == [method |-> method, positional |-> positional]

_variance_plus2 ==
    Body("",
         Div(Mul(Sub(mean_value, Read(_min)), Sub(Read(_max), mean_value)),
             Add(Read(_smoothness), Float(2))),
         "value", "PERT", <<Call("mean", <<>>)>>)

\* PERT._variance
_variance ==
    Body("",
         Div(Mul(Sub(mean_value, Read(_min)), Sub(Read(_max), mean_value)),
             Add(Read(_smoothness), Float(3))),
         "value", "PERT", <<Call("mean", <<>>)>>)

\* Distribution.variance(name='variance')
variance_result(positional) ==
    Public(positional, 1, "variance", _variance)

\* PERT._stddev: self.variance(kwargs), then tf.sqrt of what it returns
_stddev ==
    LET call == Call("variance", <<"kwargs">>)
        v == variance_result(call.positional)
    IN  Body(v.error, v.value, IF v.error = "" THEN "sqrt" ELSE "",
             "PERT", <<call>>)

\* TransformedDistribution._cdf, evaluated at x
cdf_result(x, positional) ==
    Public(positional, 2, "cdf", Body("", x, "cdf", "base", <<>>))

\* PERT._survivial_function: 1. - self.cdf(value, kwargs)
_survivial_function(x) ==
    LET call == Call("cdf", <<"value", "kwargs">>)
        c == cdf_result(x, call.positional)
    IN  Body(c.error, c.value, IF c.error = "" THEN "1-cdf" ELSE "",
             "PERT", <<call>>)

\* TransformedDistribution._survival_function, evaluated at x
base_survival_function(x) == Body("", x, "sf", "base", <<>>)

_mode_rederived ==
    Body("",
         Add(Mul(bijector.scale,
                 Div(Sub(_concentration1, Float(1)),
                     Sub(Add(_concentration1, _concentration0), Float(2)))),
             Read(bijector.shift)),
         "value", "PERT", <<>>)

\* PERT._mode
_mode == Body("", Read(_mod), "value", "PERT", <<>>)

\* a public query on the constructed object
Query(op, r) ==
    /\ pc = "constructed"
    /\ last' = Outcome(op, r.error, r.asserted, r.failures, r.value, r.form,
                       r.impl, r.inner)
    /\ UNCHANGED <<pc, inputs, variables, assigns, fields>>

\* dist.mean()
mean ==
    Query("mean", Public(<<>>, 1, "mean",
                         Body("", mean_value, "value", "base", <<>>)))

\* dist.variance()
variance == Query("variance", variance_result(<<>>))

\* dist.stddev()
stddev == Query("stddev", Public(<<>>, 1, "stddev", _stddev))

\* dist.mode()
mode == Query("mode", Public(<<>>, 1, "mode", _mode))

\* dist.cdf(value)
cdf == \E x \in QueryPoints : Query("cdf", cdf_result(Float(x), <<"value">>))

\* dist.survival_function(value)
survival_function ==
    \E x \in QueryPoints :
        Query("survival_function",
              Public(<<"value">>, 2, "survival_function",
                     IF Dispatch("_survival_function") = "PERT"
                     THEN _survivial_function(Float(x))
                     ELSE base_survival_function(Float(x))))

\* ------------------------------------------------------------------------
\* Specification
\* ------------------------------------------------------------------------

Next ==
    \/ Construct
    \/ Assign
    \/ minimum
    \/ maximum
    \/ smoothness
    \/ loc
    \/ scale
    \/ concentration0
    \/ concentration1
    \/ mean
    \/ variance
    \/ stddev
    \/ mode
    \/ cdf
    \/ survival_function

Spec == Init /\ [][Next]_vars

\* ------------------------------------------------------------------------
\* Properties
\* ------------------------------------------------------------------------

\* the queries that run under Distribution._name_and_control_scope
QueryOps == {"mean", "variance", "stddev", "mode", "cdf", "survival_function"}

\* the value a parameter has now: the Variable's when it is one
Current(p) == IF is_ref[p] THEN variables[p] ELSE args[p]

\* the invariants a choice of parameter values violates, by message
Violated(mi, mo, ma, sm) ==
    (IF mo <= mi THEN {MsgMin} ELSE {})
    \cup (IF ma <= mo THEN {MsgMax} ELSE {})
    \cup (IF sm <= 0 THEN {MsgSmooth} ELSE {})

\* the parameters satisfy minimum < mode < maximum and smoothness > 0 now
Valid ==
    Violated(Current("mini"), Current("mode"), Current("maxi"),
             Current("smoothness")) = {}

AllPlain == \A p \in ParamNames : ~is_ref[p]

\* C1: with validate_args and four plain parameters, construction reports
\* exactly the violated invariants, each by its message, and succeeds only
\* when none is violated.
C1_IndependentChecks ==
    (validate_args /\ AllPlain /\ pc # "new") =>
        LET bad == Violated(args["mini"], args["mode"], args["maxi"],
                            args["smoothness"])
        IN  /\ pc = "constructed" <=> bad = {}
            /\ last.op = "__init__" =>
                  /\ last.failures = bad
                  /\ last.error = (IF bad = {} THEN "" ELSE "InvalidArgument")

C1_Witness ==
    /\ validate_args /\ AllPlain /\ pc = "failed"
    /\ last.op = "__init__"
    /\ last.failures = {MsgMin, MsgMax, MsgSmooth}

\* C2: with validate_args the invariants are asserted at construction and
\* again on every access (mode > minimum when mode or minimum is a Variable,
\* maximum > mode when mode or maximum is one, smoothness > 0 when
\* smoothness is one), so no query completes without InvalidArgument while
\* minimum < mode < maximum or smoothness > 0 is violated.
C2_RevalidatedOnAccess ==
    (/\ validate_args /\ pc = "constructed"
     /\ last.op \in QueryOps /\ last.error = "") => Valid

\* C3: without validate_args nothing is asserted: neither construction nor
\* any later access raises InvalidArgument, whatever the parameters are.
C3_NoValidation ==
    ~validate_args =>
        /\ pc # "failed"
        /\ last.asserted = {}
        /\ last.failures = {}
        /\ last.error # "InvalidArgument"

C3_Witness ==
    /\ ~validate_args /\ pc = "constructed"
    /\ last.op = "variance"
    /\ \E p \in ParamNames : is_ref[p]
    /\ Violated(Current("mini"), Current("mode"), Current("maxi"),
                Current("smoothness")) = {MsgMin, MsgMax, MsgSmooth}

\* r is the float num/den, den # 0
IsRatio(r, num, den) == r.d # 0 /\ r.n * den = r.d * num

\* C4: when minimum # maximum the constructed distribution exposes
\* concentration1 = 1 + smoothness*(mode-minimum)/(maximum-minimum),
\* concentration0 = 1 + smoothness*(maximum-mode)/(maximum-minimum),
\* scale = maximum - minimum and loc = minimum; 1, 7, 11, 4 give 3.4, 2.6,
\* 10 and 1, and concentration1 + concentration0 = 2 + smoothness.
C4_DerivedQuantities ==
    LET mi == args["mini"]
        mo == args["mode"]
        ma == args["maxi"]
        sm == args["smoothness"]
    IN  (pc = "constructed" /\ mi # ma) =>
           /\ IsRatio(_concentration1, (ma - mi) + sm * (mo - mi), ma - mi)
           /\ IsRatio(_concentration0, (ma - mi) + sm * (ma - mo), ma - mi)
           /\ IsRatio(_scale, ma - mi, 1)
           /\ Add(_concentration1, _concentration0) = Float(2 + sm)
           /\ last.op = "concentration1" => last.value = _concentration1
           /\ last.op = "concentration0" => last.value = _concentration0
           /\ last.op = "scale" => last.value = _scale
           /\ last.op = "loc" => last.value = Float(Current("mini"))
           /\ (mi = 1 /\ mo = 7 /\ ma = 11 /\ sm = 4) =>
                 /\ _concentration1 = [n |-> 17, d |-> 5]
                 /\ _concentration0 = [n |-> 13, d |-> 5]
                 /\ _scale = [n |-> 10, d |-> 1]
                 /\ assigns = 0 /\ last.op = "loc" =>
                       last.value = [n |-> 1, d |-> 1]

C4_Witness ==
    /\ pc = "constructed"
    /\ args["mini"] = 1 /\ args["mode"] = 7 /\ args["maxi"] = 11
    /\ args["smoothness"] = 4
    /\ last.op = "concentration1"
    /\ last.value = [n |-> 17, d |-> 5]

\* C5: minimum < mode < maximum and smoothness > 0 give concentration1 > 1,
\* concentration0 > 1 and scale > 0.
C5_ConcentrationsAboveOne ==
    (/\ pc = "constructed"
     /\ args["mini"] < args["mode"] /\ args["mode"] < args["maxi"]
     /\ args["smoothness"] > 0) =>
        /\ _concentration1.d > 0 /\ _concentration1.n > _concentration1.d
        /\ _concentration0.d > 0 /\ _concentration0.n > _concentration0.d
        /\ _scale.d > 0 /\ _scale.n > 0

C5_Witness ==
    /\ pc = "constructed" /\ validate_args
    /\ args["mini"] < args["mode"] /\ args["mode"] < args["maxi"]
    /\ args["smoothness"] > 0
    /\ last.op = "concentration0"
    /\ Greater(last.value, Float(1))

\* C6: variance() returns (m - minimum) * (maximum - m) / (smoothness + 3)
\* with m the composed distribution's mean, loc + scale *
\* concentration1/(concentration1 + concentration0); it is computed by the
\* PERT formula from a call of mean().
C6_VarianceFormula ==
    (last.op = "variance" /\ last.error = "") =>
        LET m == Add(Float(Current("mini")),
                     Mul(_scale, Div(_concentration1,
                                     Add(_concentration1, _concentration0))))
            mi == args["mini"]
            mo == args["mode"]
            ma == args["maxi"]
            sm == args["smoothness"]
        IN  /\ last.impl = "PERT"
            /\ last.inner = <<Call("mean", <<>>)>>
            /\ last.value =
                 Div(Mul(Sub(m, Float(Current("mini"))),
                         Sub(Float(Current("maxi")), m)),
                     Float(Current("smoothness") + 3))
            /\ (assigns = 0 /\ mi # ma /\ sm + 2 # 0 /\ sm + 3 # 0) =>
                  IsRatio(last.value,
                          (ma + sm * mo - (sm + 1) * mi)
                             * ((sm + 1) * ma - mi - sm * mo),
                          (sm + 2) * (sm + 2) * (sm + 3))

C6_Witness ==
    /\ last.op = "variance" /\ last.error = ""
    /\ args["mini"] = 1 /\ args["mode"] = 7 /\ args["maxi"] = 11
    /\ args["smoothness"] = 4
    /\ assigns = 0
    /\ last.value = [n |-> 221, d |-> 63]

\* C7: survival_function(value) runs PERT's own implementation, which
\* returns 1 - cdf(value), cdf being called with value as its only
\* positional argument.
C7_SurvivalOverride ==
    (last.op = "survival_function" /\ Valid) =>
        /\ last.error = ""
        /\ last.impl = "PERT"
        /\ last.form = "1-cdf"
        /\ last.inner = <<Call("cdf", <<"value">>)>>

\* C8: standard_deviation() completes without error and returns the square
\* root of what variance() returns, the inner variance call having no
\* positional argument.
C8_StddevCompletes ==
    (last.op = "stddev" /\ Valid) =>
        /\ last.error = ""
        /\ last.form = "sqrt"
        /\ last.value = variance_result(<<>>).value
        /\ last.inner = <<Call("variance", <<>>)>>

\* C9: mode() returns exactly the mode given to the constructor, as stored,
\* never a value derived from the concentrations; self._mod is assigned
\* once, and the bare self._mode before it raises nothing.
C9_ModeRoundTrip ==
    /\ last.error # "AttributeError"
    /\ pc # "new" =>
          /\ mod_stores = 1
          /\ _mod = [is_ref |-> is_ref["mode"], id |-> "mode",
                     val |-> Float(args["mode"])]
    /\ (last.op = "mode" /\ last.error = "") =>
          /\ last.impl = "PERT"
          /\ last.value = Float(Current("mode"))

C9_Witness ==
    /\ last.op = "mode" /\ last.error = ""
    /\ args["smoothness"] = 0
    /\ last.value = Float(args["mode"])
    /\ mod_stores = 1

\* what no step after construction changes
Stored == <<fields, pc, inputs>>

====
